---- MODULE Spec2Model ----
(***************************************************************************)
(* Model of protocol::Client (src/src/Client.cpp): the client connection   *)
(* state machine, its Connect / Disconnect / Update operations and the     *)
(* packets it sends and receives.                                          *)
(*                                                                         *)
(* The client object is single threaded.  An API call (Connect,            *)
(* Disconnect, Update) is made only when no other call is running          *)
(* (pc = "idle").  Update runs its sub-methods in the order of             *)
(* Client::Update; pc walks through them in that order and nothing else    *)
(* can run in between.  The receive loop of UpdateReceivePackets takes one *)
(* packet per iteration into the local variable `packet`, dispatches it    *)
(* and destroys it.                                                        *)
(*                                                                         *)
(* Time is counted in integer ticks.                                       *)
(***************************************************************************)
EXTENDS Integers, Sequences, FiniteSets, TLC

\* ---------------------------------------------------------------- bounds

\* Largest value of TimeBase.time the caller passes to Update.
MaxTime == 3
\* Largest TimeBase.deltaTime of one Update.
MaxDelta == 2
\* Largest number of packets ReceivePacket hands out during one Update.
MaxInbound == 1

\* Largest value of TimeBase.time in the handshake scenario, and the latest
\* time at which the application calls Connect in it.
MaxHandshakeTime == 9
MaxConnectTime == 3
\* Largest number of LockstepDemo::Update calls (frames).
MaxFrames == 3
\* Largest sequence and num_inputs of a batch handed to AddInputs directly,
\* and largest time of a call, in ticks.
MaxBatchSequence == 3
MaxBatchInputs == 2
MaxBufferTime == 40
\* MaxSimFrames of Cubes.h: the frames GetFrames hands out per call.
MaxSimFrames == 2
\* Calls of LockstepDemo::Update over the simulator that loses every packet.
MaxLossFrames == 257
\* Fragments of the client data block in the client data scenario.
DataNumFragments == 3

\* ------------------------------------------------- configuration values

\* m_config.connectingTimeOut and m_config.connectedTimeOut, in ticks.
ConnectingTimeOut == 1
ConnectedTimeOut == 2
\* 1.0 / m_config.connectingSendRate and 1.0 / m_config.connectedSendRate,
\* in ticks (timeBetweenPackets of UpdateSendPackets).
ConnectingSendPeriod == 2
ConnectedSendPeriod == 1
\* m_config.defaultServerPort
DefaultServerPort == 10000
\* Number of fragments of the client data block (m_config.clientData).
NumFragments == 1

\* --------------------------------------------------------- ClientState

CLIENT_STATE_DISCONNECTED == 0
CLIENT_STATE_RESOLVING_HOSTNAME == 1
CLIENT_STATE_SENDING_CONNECTION_REQUEST == 2
CLIENT_STATE_SENDING_CHALLENGE_RESPONSE == 3
CLIENT_STATE_SENDING_CLIENT_DATA == 4
CLIENT_STATE_READY_FOR_CONNECTION == 5
CLIENT_STATE_CONNECTED == 6

ClientStates == CLIENT_STATE_DISCONNECTED .. CLIENT_STATE_CONNECTED

ClientErrors ==
    { "NONE", "RESOLVE_HOSTNAME_FAILED", "RESOLVE_HOSTNAME_TIMED_OUT",
      "INVALID_CONNECT_ADDRESS", "MISSING_RESOLVER", "CONNECTION_REQUEST_DENIED",
      "CONNECTION_TIMED_OUT", "CONNECTION_ERROR", "DISCONNECTED_FROM_SERVER",
      "DATA_BLOCK_ERROR" }

\* ------------------------------------------------------------- Address

\* Address(): the default constructed, invalid address.
NoAddress == [host |-> 0, port |-> 0]

IsValid(address) == address.host # 0

\* The addresses of the peers that exist in the model.
ServerAddresses ==
    { [host |-> 1, port |-> DefaultServerPort],
      [host |-> 2, port |-> DefaultServerPort] }

\* The strings the application passes to Connect( const char * ).
Hostnames == { "[::1]:10000", "example.com" }

\* Address( hostname ): the address a string parses to, invalid when the
\* string is not an address.
ParseAddress(hostname) ==
    IF hostname = "[::1]:10000"
      THEN [host |-> 1, port |-> DefaultServerPort]
      ELSE NoAddress

\* ---------------------------------------------------------------- GUIDs

\* Values generate_guid() returns, and the values a server picks.
GuidValues == { 1, 2 }

\* -------------------------------------------------------------- packets

\* The types of the packets sent and received.
PacketTypes ==
    { "CONNECTION_REQUEST", "CONNECTION_CHALLENGE", "CONNECTION_DENIED",
      "CHALLENGE_RESPONSE", "READY_FOR_CONNECTION", "DATA_BLOCK_FRAGMENT",
      "DATA_BLOCK_FRAGMENT_ACK", "CONNECTION", "DISCONNECTED" }

\* A packet: its type, its address (the source of an inbound packet, the
\* destination of a sent one), the guids it carries and one more field:
\*   CONNECTION_DENIED        arg = reason
\*   DATA_BLOCK_FRAGMENT      arg = the error the data block receiver reports
\*                                  after ProcessFragment of it (0: none)
\*   DATA_BLOCK_FRAGMENT_ACK  arg = fragmentId
\*   CONNECTION               arg = 1 when Connection::ReadPacket succeeds
Packet(type, address, clientGuid, serverGuid, arg) ==
    [type |-> type, address |-> address, clientGuid |-> clientGuid,
     serverGuid |-> serverGuid, arg |-> arg]

\* The value of the local `packet` when no packet is held.
NoPacket == Packet("NONE", NoAddress, 0, 0, 0)

DeniedReasons == { 3, 7 }
ReceiverErrors == { 0, 1 }

PacketArgs(type) ==
    CASE type = "CONNECTION_DENIED" -> DeniedReasons
      [] type = "DATA_BLOCK_FRAGMENT" -> ReceiverErrors
      [] type = "DATA_BLOCK_FRAGMENT_ACK" -> 0 .. NumFragments
      [] type = "CONNECTION" -> { 0, 1 }
      [] OTHER -> { 0 }

\* Guids a packet of a type carries: a connection packet carries none, a
\* request and a denial carry no server guid, a disconnected packet may
\* carry the cleared server guid of a session that saw no challenge.
PacketClientGuids(type) == IF type = "CONNECTION" THEN { 0 } ELSE GuidValues
PacketServerGuids(type) ==
    CASE type \in { "CONNECTION", "CONNECTION_REQUEST", "CONNECTION_DENIED" } -> { 0 }
      [] type = "DISCONNECTED" -> GuidValues \cup { 0 }
      [] OTHER -> GuidValues

\* Every packet NetworkInterface::ReceivePacket can return.
InboundPackets ==
    UNION { { Packet(t, a, cg, sg, x) :
                a \in ServerAddresses, cg \in PacketClientGuids(t),
                sg \in PacketServerGuids(t), x \in PacketArgs(t) } :
            t \in PacketTypes \ { "CHALLENGE_RESPONSE" } }

\* ------------------------------------------------------------- resolver

\* The values of a resolver entry ("NONE": GetEntry returns null).  A lookup
\* that succeeds gives an address without port.
ResolveEntries ==
    { [status |-> "NONE", address |-> NoAddress],
      [status |-> "PENDING", address |-> NoAddress],
      [status |-> "FAILED", address |-> NoAddress],
      [status |-> "SUCCEEDED", address |-> [host |-> 2, port |-> 0]] }

\* ---------------------------------------------------------------- state

VARIABLES
    config,                   \* ClientConfig and the build configuration
    m_state,
    m_error,
    m_extendedError,
    m_address,
    m_hostname,
    m_clientGuid,
    m_serverGuid,
    m_lastPacketReceiveTime,
    m_accumulator,
    m_timeBase,
    connectionActive,         \* m_connection holds state since its last Reset
    senderAcked,              \* m_dataBlockSender: the acked fragments
    receiverStarted,          \* m_dataBlockReceiver holds fragments
    resolverEntry,            \* the resolver's entry for "example.com"
    sent,                     \* packets handed to SendPacket by the last step
    call,                     \* the API call made last, with its arguments
    packet,                   \* local `packet` of UpdateReceivePackets
    received,                 \* packets received so far in this Update
    pc,                       \* the sub-method of Update that runs next
    crashed,                  \* the process died on a null pointer call
    destroyed,                \* calls of PacketFactory::Destroy by the last step
    advanced,                 \* a packet of this Update moved the state forward
    firstUpdate,              \* no Update has ended since Connect( address ) was called
    inbox,                    \* packets the transport holds for the client
    input_sliding_window,     \* m_lockstep->input_sliding_window
    playout_delay_buffer,     \* m_lockstep->playout_delay_buffer
    network_simulator,        \* m_lockstep->network_simulator
    global_time,              \* global.timeBase.time
    received_input_this_frame,\* local of LockstepDemo::Update
    ack_sequence,             \* local of LockstepDemo::Update
    received_sequences,       \* sequences of the input packets received in this Update
    frame_inputs,             \* every input GetFrames has handed out
    lockstep_pc,              \* the part of LockstepDemo::Update that runs next
    failedAssert              \* a CORE_ASSERT of the lockstep code has failed

\* The state of the client and of its caller.
protocolVars ==
    << config, m_state, m_error, m_extendedError, m_address, m_hostname,
       m_clientGuid, m_serverGuid, m_lastPacketReceiveTime, m_accumulator,
       m_timeBase, connectionActive, senderAcked, receiverStarted,
       resolverEntry, sent, call, packet, received, pc, crashed, destroyed,
       advanced, firstUpdate, inbox >>

\* The state of the lockstep demo.
lockstepVars ==
    << input_sliding_window, playout_delay_buffer, network_simulator,
       global_time, received_input_this_frame, ack_sequence,
       received_sequences, frame_inputs, lockstep_pc, failedAssert >>

vars ==
    << config, m_state, m_error, m_extendedError, m_address, m_hostname,
       m_clientGuid, m_serverGuid, m_lastPacketReceiveTime, m_accumulator,
       m_timeBase, connectionActive, senderAcked, receiverStarted,
       resolverEntry, sent, call, packet, received, pc, crashed, destroyed,
       advanced, firstUpdate, inbox, input_sliding_window, playout_delay_buffer,
       network_simulator,
       global_time, received_input_this_frame, ack_sequence,
       received_sequences, frame_inputs, lockstep_pc, failedAssert >>

\* The client object as one record, for the methods below.
Self ==
    [ m_state |-> m_state, m_error |-> m_error,
      m_extendedError |-> m_extendedError, m_address |-> m_address,
      m_hostname |-> m_hostname, m_clientGuid |-> m_clientGuid,
      m_serverGuid |-> m_serverGuid,
      m_lastPacketReceiveTime |-> m_lastPacketReceiveTime,
      m_accumulator |-> m_accumulator, m_timeBase |-> m_timeBase,
      connectionActive |-> connectionActive, senderAcked |-> senderAcked,
      receiverStarted |-> receiverStarted, resolverEntry |-> resolverEntry,
      sent |-> <<>>, crashed |-> crashed, destroyed |-> 0 ]

\* The client object after a step.
Becomes(c) ==
    /\ m_state' = c.m_state
    /\ m_error' = c.m_error
    /\ m_extendedError' = c.m_extendedError
    /\ m_address' = c.m_address
    /\ m_hostname' = c.m_hostname
    /\ m_clientGuid' = c.m_clientGuid
    /\ m_serverGuid' = c.m_serverGuid
    /\ m_lastPacketReceiveTime' = c.m_lastPacketReceiveTime
    /\ m_accumulator' = c.m_accumulator
    /\ m_timeBase' = c.m_timeBase
    /\ connectionActive' = c.connectionActive
    /\ senderAcked' = c.senderAcked
    /\ receiverStarted' = c.receiverStarted
    /\ resolverEntry' = c.resolverEntry
    /\ sent' = c.sent
    /\ crashed' = c.crashed
    /\ destroyed' = c.destroyed

\* ------------------------------------------------------ client methods

\* NetworkInterface::SendPacket( address, packet )
SendPacket(c, type, address, arg) ==
    [c EXCEPT !.sent = Append(@, Packet(type, address, c.m_clientGuid, c.m_serverGuid, arg))]

\* Mutant of ClearStateData: the server guid survives the session.
ClearStateData_KeepsServerGuid(c) ==
    [c EXCEPT !.m_hostname = "", !.m_address = NoAddress, !.m_clientGuid = 0]

ClearStateData(c) ==
    [c EXCEPT !.m_hostname = "", !.m_address = NoAddress,
              !.m_clientGuid = 0, !.m_serverGuid = 0]

ClearError(c) == [c EXCEPT !.m_error = "NONE", !.m_extendedError = 0]

IsDisconnected(c) == c.m_state = CLIENT_STATE_DISCONNECTED

IsConnected(c) == c.m_state = CLIENT_STATE_CONNECTED

\* Mutant of Disconnect: no early return for a disconnected client.
Disconnect_NoGuard(c) ==
    LET s1 == SendPacket(c, "DISCONNECTED", c.m_address, 0)
        s2 == [s1 EXCEPT !.connectionActive = FALSE]
        s3 == ClearStateData(s2)
        s4 == [s3 EXCEPT !.m_state = CLIENT_STATE_DISCONNECTED,
                         !.m_address = NoAddress, !.m_hostname = ""]
        s5 == IF config.clientData THEN [s4 EXCEPT !.senderAcked = {}] ELSE s4
    IN  IF config.receiver THEN [s5 EXCEPT !.receiverStarted = FALSE] ELSE s5

Disconnect(c) ==
    IF IsDisconnected(c)
      THEN c
      ELSE LET s1 == SendPacket(c, "DISCONNECTED", c.m_address, 0)
               s2 == [s1 EXCEPT !.connectionActive = FALSE]
               s3 == ClearStateData(s2)
               s4 == [s3 EXCEPT !.m_state = CLIENT_STATE_DISCONNECTED,
                                !.m_address = NoAddress, !.m_hostname = ""]
               s5 == IF config.clientData THEN [s4 EXCEPT !.senderAcked = {}] ELSE s4
           IN  IF config.receiver THEN [s5 EXCEPT !.receiverStarted = FALSE] ELSE s5

\* Mutant of DisconnectAndSetError: the extended error is not stored.
DisconnectAndSetError_NoExtendedError(c, error, extendedError) ==
    [Disconnect(c) EXCEPT !.m_error = error]

DisconnectAndSetError(c, error, extendedError) ==
    [Disconnect(c) EXCEPT !.m_error = error, !.m_extendedError = extendedError]

\* Mutant of Connect: the error of the prior session is not cleared.
Connect_NoClearError(c, address, guid) ==
    [Disconnect(c) EXCEPT
        !.m_state = CLIENT_STATE_SENDING_CONNECTION_REQUEST,
        !.m_address = address,
        !.m_clientGuid = guid]

\* Connect( const Address & ); guid is the value generate_guid() returns.
Connect(c, address, guid) ==
    [ClearError(Disconnect(c)) EXCEPT
        !.m_state = CLIENT_STATE_SENDING_CONNECTION_REQUEST,
        !.m_address = address,
        !.m_clientGuid = guid]

\* Resolver::Resolve( hostname ): enqueues the lookup unless the entry exists.
Resolve(c) ==
    IF c.resolverEntry.status = "NONE"
      THEN [c EXCEPT !.resolverEntry = [status |-> "PENDING", address |-> NoAddress]]
      ELSE c

\* Connect( const char * ).  With no resolver configured the call of
\* m_config.resolver->Resolve is a call through a null pointer: the process
\* dies there (nullCall = "crash") or the call returns (nullCall = "return").
ConnectHostname(c, hostname, guid, nullCall) ==
    LET d == ClearError(Disconnect(c))
        address == ParseAddress(hostname)
    IN  IF IsValid(address)
          THEN Connect(d, address, guid)
          ELSE IF config.PROTOCOL_USE_RESOLVER
            THEN LET e == IF ~config.resolver
                            THEN DisconnectAndSetError(d, "MISSING_RESOLVER", 0)
                            ELSE d
                 IN  IF ~config.resolver /\ nullCall = "crash"
                       THEN [e EXCEPT !.crashed = TRUE]
                       ELSE [(IF config.resolver THEN Resolve(e) ELSE e) EXCEPT
                                !.m_state = CLIENT_STATE_RESOLVING_HOSTNAME,
                                !.m_lastPacketReceiveTime = e.m_timeBase.time,
                                !.m_hostname = hostname]
            ELSE DisconnectAndSetError(d, "INVALID_CONNECT_ADDRESS", 0)

\* Resolver::Update: a pending lookup stays pending, fails or succeeds.
ResolverUpdate(c, progress) ==
    IF c.resolverEntry.status = "PENDING"
      THEN [c EXCEPT !.resolverEntry = progress]
      ELSE c

\* UpdateResolver.  With no resolver configured GetEntry is a call through a
\* null pointer: the process dies or the call returns some entry (nullEntry).
UpdateResolver(c, progress, guid, nullCall, nullEntry) ==
    IF ~config.PROTOCOL_USE_RESOLVER
      THEN c
      ELSE LET c1 == IF config.resolver THEN ResolverUpdate(c, progress) ELSE c
               entry == IF config.resolver THEN c1.resolverEntry ELSE nullEntry
               address == IF entry.address.port = 0
                            THEN [entry.address EXCEPT !.port = DefaultServerPort]
                            ELSE entry.address
           IN  IF c1.m_state # CLIENT_STATE_RESOLVING_HOSTNAME
                 THEN c1
                 ELSE IF ~config.resolver /\ nullCall = "crash"
                   THEN [c1 EXCEPT !.crashed = TRUE]
                   ELSE IF entry.status \in { "NONE", "FAILED" }
                     THEN DisconnectAndSetError(c1, "RESOLVE_HOSTNAME_FAILED", 0)
                     ELSE IF entry.status = "SUCCEEDED"
                       THEN Connect(c1, address, guid)
                       ELSE c1

\* UpdateConnection; channelError: the channel reports an error after its Update.
UpdateConnection(c, channelError) ==
    IF c.m_state = CLIENT_STATE_CONNECTED
      THEN LET c1 == [c EXCEPT !.connectionActive = TRUE]
           IN  IF channelError
                 THEN DisconnectAndSetError(c1, "CONNECTION_ERROR", 0)
                 ELSE c1
      ELSE c

\* The packet UpdateSendPackets creates in a state.
SendPacketForState(c) ==
    CASE c.m_state = CLIENT_STATE_SENDING_CONNECTION_REQUEST ->
           [c EXCEPT !.sent = Append(@, Packet("CONNECTION_REQUEST", c.m_address, c.m_clientGuid, 0, 0))]
      [] c.m_state = CLIENT_STATE_SENDING_CHALLENGE_RESPONSE ->
           SendPacket(c, "CHALLENGE_RESPONSE", c.m_address, 0)
      [] c.m_state = CLIENT_STATE_READY_FOR_CONNECTION ->
           SendPacket(c, "READY_FOR_CONNECTION", c.m_address, 0)
      [] c.m_state = CLIENT_STATE_CONNECTED ->
           [c EXCEPT !.sent = Append(@, Packet("CONNECTION", c.m_address, 0, 0, 0)),
                     !.connectionActive = TRUE]
      [] OTHER -> c

UpdateSendPackets(c) ==
    IF c.m_state < CLIENT_STATE_SENDING_CONNECTION_REQUEST
      THEN c
      ELSE LET accumulator == c.m_accumulator + c.m_timeBase.deltaTime
               timeBetweenPackets ==
                   IF IsConnected(c) THEN ConnectedSendPeriod ELSE ConnectingSendPeriod
           IN  IF accumulator >= timeBetweenPackets
                 THEN SendPacketForState(
                          [c EXCEPT !.m_accumulator = accumulator - timeBetweenPackets])
                 ELSE [c EXCEPT !.m_accumulator = accumulator]

\* Mutant of ProcessDisconnected: the server guid is not compared.
ProcessDisconnected_NoServerGuidCheck(c, p) ==
    IF p.address # c.m_address THEN c
    ELSE IF p.clientGuid # c.m_clientGuid THEN c
    ELSE DisconnectAndSetError(c, "DISCONNECTED_FROM_SERVER", 0)

ProcessDisconnected(c, p) ==
    IF p.address # c.m_address THEN c
    ELSE IF p.clientGuid # c.m_clientGuid THEN c
    ELSE IF p.serverGuid # c.m_serverGuid THEN c
    ELSE DisconnectAndSetError(c, "DISCONNECTED_FROM_SERVER", 0)

\* ProcessDataBlockFragment; p.arg is the receiver's error after ProcessFragment.
ProcessDataBlockFragment(c, p) ==
    IF p.clientGuid # c.m_clientGuid THEN c
    ELSE IF p.serverGuid # c.m_serverGuid THEN c
    ELSE IF ~config.receiver THEN c
    ELSE IF p.arg # 0
      THEN DisconnectAndSetError(c, "DATA_BLOCK_ERROR", p.arg)
      ELSE [c EXCEPT !.receiverStarted = TRUE]

\* ProcessDataBlockFragmentAck; ProcessAck marks an in-range fragment acked.
ProcessDataBlockFragmentAck(c, p) ==
    IF p.clientGuid # c.m_clientGuid THEN c
    ELSE IF p.serverGuid # c.m_serverGuid THEN c
    ELSE IF ~config.clientData THEN c
    ELSE IF p.arg \in 0 .. (config.numFragments - 1)
      THEN [c EXCEPT !.senderAcked = @ \cup { p.arg }]
      ELSE c

\* Mutant of ProcessPacketInState: a challenge is accepted in every state.
ProcessPacketInState_IgnoresState(c, p) ==
    IF /\ p.type = "CONNECTION_CHALLENGE"
       /\ p.address = c.m_address
       /\ p.clientGuid = c.m_clientGuid
      THEN [c EXCEPT !.m_state = CLIENT_STATE_SENDING_CHALLENGE_RESPONSE,
                     !.m_serverGuid = p.serverGuid,
                     !.m_lastPacketReceiveTime = c.m_timeBase.time]
      ELSE c

\* The switch on m_state of UpdateReceivePackets, for one packet.
ProcessPacketInState(c, p) ==
    CASE c.m_state = CLIENT_STATE_SENDING_CONNECTION_REQUEST ->
           IF p.type = "CONNECTION_CHALLENGE"
             THEN IF p.address = c.m_address /\ p.clientGuid = c.m_clientGuid
                    THEN [c EXCEPT !.m_state = CLIENT_STATE_SENDING_CHALLENGE_RESPONSE,
                                   !.m_serverGuid = p.serverGuid,
                                   !.m_lastPacketReceiveTime = c.m_timeBase.time]
                    ELSE c
             ELSE IF p.type = "CONNECTION_DENIED"
               THEN IF p.address = c.m_address /\ p.clientGuid = c.m_clientGuid
                      THEN DisconnectAndSetError(c, "CONNECTION_REQUEST_DENIED", p.arg)
                      ELSE c
               ELSE c
      [] c.m_state = CLIENT_STATE_SENDING_CHALLENGE_RESPONSE ->
           IF p.type = "DATA_BLOCK_FRAGMENT"
             THEN ProcessDataBlockFragment(c, p)
             ELSE IF p.type = "READY_FOR_CONNECTION"
               THEN IF /\ p.address = c.m_address
                       /\ p.clientGuid = c.m_clientGuid
                       /\ p.serverGuid = c.m_serverGuid
                      THEN IF ~config.clientData
                             THEN [c EXCEPT !.m_state = CLIENT_STATE_READY_FOR_CONNECTION,
                                            !.m_lastPacketReceiveTime = c.m_timeBase.time]
                             ELSE [c EXCEPT !.m_state = CLIENT_STATE_SENDING_CLIENT_DATA,
                                            !.m_lastPacketReceiveTime = c.m_timeBase.time]
                      ELSE c
               ELSE c
      [] c.m_state = CLIENT_STATE_SENDING_CLIENT_DATA ->
           IF p.type = "DATA_BLOCK_FRAGMENT"
             THEN ProcessDataBlockFragment(c, p)
             ELSE IF p.type = "DATA_BLOCK_FRAGMENT_ACK"
               THEN ProcessDataBlockFragmentAck(c, p)
               ELSE c
      [] c.m_state \in { CLIENT_STATE_READY_FOR_CONNECTION, CLIENT_STATE_CONNECTED } ->
           IF p.type = "DATA_BLOCK_FRAGMENT"
             THEN ProcessDataBlockFragment(c, p)
             ELSE IF p.type = "CONNECTION"
               THEN LET c1 == IF c.m_state = CLIENT_STATE_READY_FOR_CONNECTION
                                THEN [c EXCEPT !.m_state = CLIENT_STATE_CONNECTED]
                                ELSE c
                        c2 == [c1 EXCEPT !.connectionActive = TRUE]
                    IN  IF p.arg = 1
                          THEN [c2 EXCEPT !.m_lastPacketReceiveTime = c.m_timeBase.time]
                          ELSE c2
               ELSE c
      [] OTHER -> c

\* m_packetFactory->Destroy( packet )
Destroy(c) == [c EXCEPT !.destroyed = @ + 1]

\* Mutant of ProcessPacket: a Disconnected packet is not destroyed.
ProcessPacket_LeaksDisconnected(c, p) ==
    IF p.type = "DISCONNECTED"
      THEN ProcessDisconnected(c, p)
      ELSE Destroy(ProcessPacketInState(c, p))

\* One iteration of the loop of UpdateReceivePackets on a received packet.
ProcessPacket(c, p) ==
    IF p.type = "DISCONNECTED"
      THEN Destroy(ProcessDisconnected(c, p))
      ELSE Destroy(ProcessPacketInState(c, p))

\* ClientServerDataBlockSender::SendCompleted
SendCompleted(c) == c.senderAcked = 0 .. (config.numFragments - 1)

\* ClientServerDataBlockSender::Update: when its send rate allows (fire), it
\* sends the next fragment that is not acked.
SenderUpdate(c, fire) ==
    IF fire /\ ~SendCompleted(c)
      THEN SendPacket(c, "DATA_BLOCK_FRAGMENT", c.m_address, 0)
      ELSE c

\* Mutant of UpdateSendClientData: a completed send connects the client.
UpdateSendClientData_SkipsReady(c, fire) ==
    IF c.m_state # CLIENT_STATE_SENDING_CLIENT_DATA
      THEN c
      ELSE IF SendCompleted(c)
        THEN [c EXCEPT !.m_state = CLIENT_STATE_CONNECTED]
        ELSE SenderUpdate(c, fire)

UpdateSendClientData(c, fire) ==
    IF c.m_state # CLIENT_STATE_SENDING_CLIENT_DATA
      THEN c
      ELSE IF SendCompleted(c)
        THEN [c EXCEPT !.m_state = CLIENT_STATE_READY_FOR_CONNECTION]
        ELSE SenderUpdate(c, fire)

\* Mutant of UpdateTimeout: the connecting timeout is applied in every state.
UpdateTimeout_AlwaysConnecting(c) ==
    IF IsDisconnected(c)
      THEN c
      ELSE IF c.m_lastPacketReceiveTime + ConnectingTimeOut < c.m_timeBase.time
        THEN DisconnectAndSetError(c, "CONNECTION_TIMED_OUT", c.m_state)
        ELSE c

UpdateTimeout(c) ==
    IF IsDisconnected(c)
      THEN c
      ELSE LET timeout == IF IsConnected(c) THEN ConnectedTimeOut ELSE ConnectingTimeOut
           IN  IF c.m_lastPacketReceiveTime + timeout < c.m_timeBase.time
                 THEN DisconnectAndSetError(c, "CONNECTION_TIMED_OUT", c.m_state)
                 ELSE c

\* ------------------------------------------------------- lockstep demo
\* Time is counted in ticks of half a frame (1/120 s).

MaxInputs == 256
LeftPort == 1000
RightPort == 1001
\* PlayoutDelay (0.25 s), one frame (1/60 s) and half a frame, in ticks.
PlayoutDelay == 30
FrameTime == 2
HalfFrameTime == 1
\* The time that passes between two calls: one frame, or a hitch.
FrameDeltas == { FrameTime, PlayoutDelay + FrameTime }

\* The values of game::Input.
Inputs == { 0, 1 }

\* uint16_t arithmetic.
U16(x) == x % 65536

\* core::sequence_greater_than and core::sequence_less_than.
sequence_greater_than(s1, s2) ==
    LET d == U16(s1 - s2) IN d # 0 /\ d < 32768

sequence_less_than(s1, s2) == sequence_greater_than(s2, s1)

\* RealSlidingWindow<game::Input>( allocator, MaxInputs ): the ring of
\* entries (entry of sequence s in slot s % MaxInputs), the sequence of the
\* first entry not acked and the sequence of the next insert.
NewSlidingWindow == [first_sequence |-> 0, sequence |-> 0, entries |-> << >>]

GetSequence(w) == w.sequence

\* Number of entries of [first_sequence, sequence).
GetNumEntries(w) ==
    IF sequence_greater_than(w.sequence, w.first_sequence)
      THEN U16(w.sequence - w.first_sequence)
      ELSE 0

IsFull(w) == GetNumEntries(w) >= MaxInputs

\* Insert( entry ): fails on a full window.
Insert(w, entry) ==
    IF IsFull(w)
      THEN w
      ELSE LET slot == w.sequence % MaxInputs
           IN  [w EXCEPT !.entries = IF slot < Len(@)
                                       THEN [@ EXCEPT ![slot + 1] = entry]
                                       ELSE Append(@, entry),
                         !.sequence = U16(@ + 1)]

\* Ack( ack ): an ack older than first_sequence - 1 is ignored.
Ack(w, ack) ==
    IF sequence_less_than(ack, U16(w.first_sequence - 1))
      THEN w
      ELSE [w EXCEPT !.first_sequence = U16(ack + 1)]

\* GetArray( array, length ): the entries of [first_sequence, sequence).
GetArray(w) ==
    [i \in 1 .. GetNumEntries(w) |->
        w.entries[(U16(w.first_sequence + i - 1) % MaxInputs) + 1]]

\* A LockstepInputPacket and a LockstepAckPacket; port is the port of the
\* address the packet is sent to (0: the packet has no address).
InputPacket(port, sequence, inputs) ==
    [type |-> "LOCKSTEP_PACKET_INPUT", port |-> port, sequence |-> sequence,
     num_inputs |-> Len(inputs), inputs |-> inputs, ack |-> 0]

AckPacket(port, ack) ==
    [type |-> "LOCKSTEP_PACKET_ACK", port |-> port, sequence |-> 0,
     num_inputs |-> 0, inputs |-> << >>, ack |-> ack]

\* The part of LockstepInputPacket's serialize function that writes
\* inputs[i..]: the first input whole, every other one as a changed bit
\* followed by the input when it differs from the one before.
RECURSIVE WriteInputs(_, _)
WriteInputs(inputs, i) ==
    IF i > Len(inputs) THEN << >>
    ELSE IF i = 1 THEN << inputs[1] >> \o WriteInputs(inputs, 2)
    ELSE IF inputs[i] # inputs[i - 1]
      THEN << 1, inputs[i] >> \o WriteInputs(inputs, i + 1)
      ELSE << 0 >> \o WriteInputs(inputs, i + 1)

\* packet->SerializeWrite( write_stream ): the values written, in order.
SerializeWrite(p) ==
    IF p.type = "LOCKSTEP_PACKET_ACK"
      THEN << p.ack >>
      ELSE << p.sequence, p.num_inputs >> \o WriteInputs(p.inputs, 1)

\* The part of the serialize function that reads inputs[i..] of n inputs
\* from position pos of the stream; an input that did not change is a copy of
\* the one before.
RECURSIVE ReadInputs(_, _, _, _, _)
ReadInputs(stream, pos, i, n, inputs) ==
    IF i > n THEN inputs
    ELSE IF i = 1
      THEN ReadInputs(stream, pos + 1, 2, n, << stream[pos] >>)
    ELSE IF stream[pos] = 1
      THEN ReadInputs(stream, pos + 2, i + 1, n, Append(inputs, stream[pos + 1]))
      ELSE ReadInputs(stream, pos + 1, i + 1, n, Append(inputs, inputs[i - 1]))

\* read_packet = Create( type ); read_packet->SerializeRead( read_stream )
SerializeRead(type, stream) ==
    IF type = "LOCKSTEP_PACKET_ACK"
      THEN AckPacket(0, stream[1])
      ELSE InputPacket(0, stream[1], ReadInputs(stream, 3, 1, stream[2], << >>))

\* LockstepPlayoutDelayBuffer( allocator ).  An element of input_queue is the
\* input together with the sequence it was appended under.
NewPlayoutDelayBuffer ==
    [stopped |-> TRUE, start_time |-> 0, most_recent_input |-> 0, frame |-> 0,
     input_queue |-> << >>]

\* Mutant of AddInputsFrom: every input of the batch is appended.
RECURSIVE AddInputsFrom_AppendsAll(_, _, _, _)
AddInputsFrom_AppendsAll(b, first_input_sequence, inputs, i) ==
    IF i >= Len(inputs) THEN b
    ELSE LET sequence == U16(first_input_sequence + i)
         IN  AddInputsFrom_AppendsAll(
                 [b EXCEPT !.most_recent_input = U16(sequence + 1),
                           !.input_queue = Append(@, [sequence |-> sequence,
                                                      input |-> inputs[i + 1]])],
                 first_input_sequence, inputs, i + 1)

\* The loop of AddInputs from index i on.
RECURSIVE AddInputsFrom(_, _, _, _)
AddInputsFrom(b, first_input_sequence, inputs, i) ==
    IF i >= Len(inputs) THEN b
    ELSE LET sequence == U16(first_input_sequence + i)
         IN  AddInputsFrom(
                 IF sequence = b.most_recent_input
                   THEN [b EXCEPT !.most_recent_input = U16(sequence + 1),
                                  !.input_queue = Append(@, [sequence |-> sequence,
                                                             input |-> inputs[i + 1]])]
                   ELSE b,
                 first_input_sequence, inputs, i + 1)

\* Mutant of AddInputs: the batch is taken to start one sequence earlier.
AddInputs_StartsOneEarlier(b, time, sequence, inputs) ==
    LET b1 == IF b.stopped
                THEN [b EXCEPT !.start_time = time, !.stopped = FALSE]
                ELSE b
    IN  AddInputsFrom(b1, U16(sequence - Len(inputs) - 1), inputs, 0)

\* AddInputs( time, sequence, num_inputs, inputs ), num_inputs = Len(inputs).
AddInputs(b, time, sequence, inputs) ==
    LET b1 == IF b.stopped
                THEN [b EXCEPT !.start_time = time, !.stopped = FALSE]
                ELSE b
    IN  AddInputsFrom(b1, U16(sequence - Len(inputs)), inputs, 0)

\* Mutant of GetFramesFrom: the loop is not limited to MaxSimFrames.
RECURSIVE GetFramesFrom_NoLimit(_, _, _)
GetFramesFrom_NoLimit(r, time, i) ==
    IF time < r.buffer.start_time + r.buffer.frame * FrameTime
                  + HalfFrameTime + PlayoutDelay THEN r
    ELSE IF Len(r.buffer.input_queue) = 0 THEN r
    ELSE GetFramesFrom_NoLimit(
             [buffer |-> [r.buffer EXCEPT !.input_queue = Tail(@),
                                          !.frame = @ + 1],
              frame_input |-> Append(r.frame_input, Head(r.buffer.input_queue))],
             time, i + 1)

\* The loop of GetFrames from index i on; r.frame_input collects the frames.
RECURSIVE GetFramesFrom(_, _, _)
GetFramesFrom(r, time, i) ==
    IF i >= MaxSimFrames THEN r
    ELSE IF time < r.buffer.start_time + r.buffer.frame * FrameTime
                     + HalfFrameTime + PlayoutDelay THEN r
    ELSE IF Len(r.buffer.input_queue) = 0 THEN r
    ELSE GetFramesFrom(
             [buffer |-> [r.buffer EXCEPT !.input_queue = Tail(@),
                                          !.frame = @ + 1],
              frame_input |-> Append(r.frame_input, Head(r.buffer.input_queue))],
             time, i + 1)

\* GetFrames( time, num_frames, frame_input ): the buffer after the call and
\* the frames handed out (num_frames = Len(frame_input)).
GetFrames(b, time) ==
    IF b.stopped
      THEN [buffer |-> b, frame_input |-> << >>]
      ELSE GetFramesFrom([buffer |-> b, frame_input |-> << >>], time, 0)

\* Mutant of NextAckSequence: the packet received last sets the ack.
NextAckSequence_LastWins(received_input, current, sequence) ==
    U16(sequence - 1)

\* Mutant of NextAckSequence: the ack is the sequence of the packet.
NextAckSequence_NoDecrement(received_input, current, sequence) ==
    IF ~received_input
      THEN sequence
      ELSE IF sequence_greater_than(sequence, current)
        THEN sequence
        ELSE current

\* ack_sequence after an input packet of the given sequence, in
\* LockstepDemo::Update's receive loop; received_input is
\* received_input_this_frame before the packet.
NextAckSequence(received_input, current, sequence) ==
    IF ~received_input
      THEN U16(sequence - 1)
      ELSE IF sequence_greater_than(U16(sequence - 1), current)
        THEN U16(sequence - 1)
        ELSE current

\* network::Simulator: the mode and the packets sent and not yet received,
\* in the order they were sent.
NewSimulator(tcpMode) == [tcpMode |-> tcpMode, packets |-> << >>]

GetTCPMode(sim) == sim.tcpMode

SimulatorSendPacket(sim, p) == [sim EXCEPT !.packets = Append(@, p)]

\* The packets ReceivePacket may return: in TCP mode the oldest one, else any.
Receivable(sim) ==
    IF sim.packets = << >> THEN { }
    ELSE IF sim.tcpMode THEN { 1 }
    ELSE 1 .. Len(sim.packets)

\* The packets without the i-th one.
RemovePacket(sim, i) ==
    [sim EXCEPT !.packets = SubSeq(@, 1, i - 1) \o SubSeq(@, i + 1, Len(@))]

\* ------------------------------------------------------------------ Init

\* A configuration: the build flag PROTOCOL_USE_RESOLVER, and whether
\* m_config.resolver, m_config.clientData (hence m_dataBlockSender) and the
\* data block receiver (m_config.maxServerDataSize > 0) exist.
Config(useResolver, resolver, clientData, receiver) ==
    [ PROTOCOL_USE_RESOLVER |-> useResolver, resolver |-> resolver,
      clientData |-> clientData, receiver |-> receiver,
      numFragments |-> IF clientData THEN NumFragments ELSE 0 ]

\* The configurations explored: a build without resolver support, a build
\* with it whose client has no resolver, one whose client has a resolver,
\* and a client that exchanges data blocks in both directions.
Configs ==
    { Config(FALSE, FALSE, FALSE, FALSE),
      Config(TRUE, FALSE, FALSE, TRUE),
      Config(TRUE, TRUE, FALSE, FALSE),
      Config(FALSE, FALSE, TRUE, TRUE) }

NoCall == [op |-> "None", address |-> NoAddress, hostname |-> "", guid |-> 0]

\* The client after Client::Client( config ): the constructor ends with
\* ClearStateData(); the other members hold their initial values (state
\* DISCONNECTED, no error, zero times).
ClientConstructed(configs) ==
    /\ config \in configs
    /\ m_state = CLIENT_STATE_DISCONNECTED
    /\ m_error = "NONE"
    /\ m_extendedError = 0
    /\ m_address = NoAddress
    /\ m_hostname = ""
    /\ m_clientGuid = 0
    /\ m_serverGuid = 0
    /\ m_lastPacketReceiveTime = 0
    /\ m_accumulator = 0
    /\ m_timeBase = [time |-> 0, deltaTime |-> 0]
    /\ connectionActive = FALSE
    /\ senderAcked = {}
    /\ receiverStarted = FALSE
    /\ resolverEntry = [status |-> "NONE", address |-> NoAddress]
    /\ sent = <<>>
    /\ call = NoCall
    /\ packet = NoPacket
    /\ received = 0
    /\ pc = "idle"
    /\ crashed = FALSE
    /\ destroyed = 0
    /\ advanced = FALSE
    /\ firstUpdate = FALSE
    /\ inbox = << >>

\* The demo after LockstepDemo::LockstepDemo( allocator ), with the
\* simulator in the mode SetTCPMode gave it.
LockstepConstructed(tcpModes) ==
    /\ input_sliding_window = NewSlidingWindow
    /\ playout_delay_buffer = NewPlayoutDelayBuffer
    /\ \E tcpMode \in tcpModes : network_simulator = NewSimulator(tcpMode)
    /\ global_time = 0
    /\ received_input_this_frame = FALSE
    /\ ack_sequence = 0
    /\ received_sequences = { }
    /\ frame_inputs = << >>
    /\ lockstep_pc = "idle"
    /\ failedAssert = FALSE

Init ==
    /\ ClientConstructed(Configs)
    /\ LockstepConstructed({ TRUE })

\* --------------------------------------------------------------- actions

\* Outcomes of a call through the null m_config.resolver.
NullCalls == IF config.PROTOCOL_USE_RESOLVER /\ ~config.resolver
               THEN { "crash", "return" } ELSE { "return" }
NullEntries == IF config.PROTOCOL_USE_RESOLVER /\ ~config.resolver
                 THEN ResolveEntries ELSE { [status |-> "NONE", address |-> NoAddress] }

CanCall == pc = "idle" /\ ~crashed

\* The application calls Connect( address ).
CallConnect ==
    /\ CanCall
    /\ \E address \in ServerAddresses, guid \in GuidValues :
          /\ Becomes(Connect(Self, address, guid))
          /\ call' = [op |-> "Connect", address |-> address, hostname |-> "", guid |-> guid]
    /\ firstUpdate' = TRUE
    /\ UNCHANGED << advanced, inbox, lockstepVars, config, packet, received, pc >>

\* The application calls Connect( hostname ).
CallConnectHostname ==
    /\ CanCall
    /\ \E hostname \in Hostnames, guid \in GuidValues, nullCall \in NullCalls :
          /\ Becomes(ConnectHostname(Self, hostname, guid, nullCall))
          /\ call' = [op |-> "ConnectHostname", address |-> NoAddress,
                      hostname |-> hostname, guid |-> 0]
    /\ firstUpdate' = FALSE
    /\ UNCHANGED << advanced, inbox, lockstepVars, config, packet, received, pc >>

\* The application calls Disconnect().
CallDisconnect ==
    /\ CanCall
    /\ Becomes(Disconnect(Self))
    /\ call' = [NoCall EXCEPT !.op = "Disconnect"]
    /\ firstUpdate' = FALSE
    /\ UNCHANGED << advanced, inbox, lockstepVars, config, packet, received, pc >>

\* The application calls Update( timeBase ): m_timeBase = timeBase.
CallUpdate ==
    /\ CanCall
    /\ \E deltaTime \in 0 .. MaxDelta :
          /\ m_timeBase.time + deltaTime <= MaxTime
          /\ Becomes([Self EXCEPT !.m_timeBase =
                         [time |-> m_timeBase.time + deltaTime, deltaTime |-> deltaTime]])
    /\ call' = [NoCall EXCEPT !.op = "Update"]
    /\ received' = 0
    /\ pc' = "UpdateResolver"
    /\ advanced' = FALSE
    /\ UNCHANGED << firstUpdate, inbox, lockstepVars, config, packet >>

StepUpdateResolver ==
    /\ pc = "UpdateResolver" /\ ~crashed
    /\ \E progress \in ResolveEntries \ { [status |-> "NONE", address |-> NoAddress] },
          guid \in GuidValues, nullCall \in NullCalls, nullEntry \in NullEntries :
          Becomes(UpdateResolver(Self, progress, guid, nullCall, nullEntry))
    /\ pc' = "UpdateConnection"
    /\ UNCHANGED << advanced, firstUpdate, inbox, lockstepVars, config, call, packet, received >>

StepUpdateConnection ==
    /\ pc = "UpdateConnection" /\ ~crashed
    /\ \E channelError \in BOOLEAN : Becomes(UpdateConnection(Self, channelError))
    /\ pc' = "UpdateSendPackets"
    /\ UNCHANGED << advanced, firstUpdate, inbox, lockstepVars, config, call, packet, received >>

StepUpdateSendPackets ==
    /\ pc = "UpdateSendPackets" /\ ~crashed
    /\ Becomes(UpdateSendPackets(Self))
    /\ pc' = "UpdateNetworkInterface"
    /\ UNCHANGED << advanced, firstUpdate, inbox, lockstepVars, config, call, packet, received >>

\* UpdateNetworkInterface ticks the transport; the client does not change.
StepUpdateNetworkInterface ==
    /\ pc = "UpdateNetworkInterface" /\ ~crashed
    /\ Becomes(Self)
    /\ pc' = "ReceivePacket"
    /\ UNCHANGED << advanced, firstUpdate, inbox, lockstepVars, config, call, packet, received >>

\* UpdateReceivePackets: ReceivePacket returns a packet.
ReceivePacket ==
    /\ pc = "ReceivePacket" /\ ~crashed
    /\ received < MaxInbound
    /\ \E p \in InboundPackets : packet' = p
    /\ received' = received + 1
    /\ Becomes(Self)
    /\ pc' = "ProcessPacket"
    /\ UNCHANGED << advanced, firstUpdate, inbox, lockstepVars, config, call >>

\* UpdateReceivePackets: ReceivePacket returns null, the loop ends.
ReceiveNull ==
    /\ pc = "ReceivePacket" /\ ~crashed
    /\ Becomes(Self)
    /\ pc' = "UpdateSendClientData"
    /\ UNCHANGED << advanced, firstUpdate, inbox, lockstepVars, config, call, packet, received >>

\* UpdateReceivePackets: the packet is processed and destroyed.
StepProcessPacket ==
    /\ pc = "ProcessPacket" /\ ~crashed
    /\ Becomes(ProcessPacket(Self, packet))
    /\ packet' = IF destroyed' > 0 THEN NoPacket ELSE packet
    /\ pc' = "ReceivePacket"
    /\ advanced' = (advanced \/ m_state' > m_state)
    /\ UNCHANGED firstUpdate
    /\ UNCHANGED << inbox, lockstepVars, config, call, received >>

StepUpdateSendClientData ==
    /\ pc = "UpdateSendClientData" /\ ~crashed
    /\ \E fire \in BOOLEAN : Becomes(UpdateSendClientData(Self, fire))
    /\ pc' = "UpdateTimeout"
    /\ UNCHANGED << advanced, firstUpdate, inbox, lockstepVars, config, call, packet, received >>

StepUpdateTimeout ==
    /\ pc = "UpdateTimeout" /\ ~crashed
    /\ Becomes(UpdateTimeout(Self))
    /\ pc' = "idle"
    /\ advanced' = FALSE
    /\ firstUpdate' = FALSE
    /\ UNCHANGED << inbox, lockstepVars, config, call, packet, received >>

Next ==
    \/ CallConnect
    \/ CallConnectHostname
    \/ CallDisconnect
    \/ CallUpdate
    \/ StepUpdateResolver
    \/ StepUpdateConnection
    \/ StepUpdateSendPackets
    \/ StepUpdateNetworkInterface
    \/ ReceivePacket
    \/ ReceiveNull
    \/ StepProcessPacket
    \/ StepUpdateSendClientData
    \/ StepUpdateTimeout

Spec == Init /\ [][Next]_vars

\* The values the members take.
TypeOK ==
    /\ m_state \in ClientStates
    /\ m_error \in ClientErrors
    /\ m_lastPacketReceiveTime \in 0 .. MaxTime
    /\ m_accumulator \in 0 .. (MaxTime + MaxDelta)
    /\ packet \in InboundPackets \cup { NoPacket }

\* ------------------------------------------- the handshake scenario
\* A client without data blocks, a server that answers every packet of
\* the handshake and a transport that loses and reorders nothing: the answer
\* to a packet the client sends in an Update is in the inbound queue when
\* that Update receives.

\* The server's answers to a packet of the client.
ServerAnswers(p) ==
    CASE p.type = "CONNECTION_REQUEST" ->
           { Packet("CONNECTION_CHALLENGE", p.address, p.clientGuid, serverGuid, 0) :
               serverGuid \in GuidValues }
      [] p.type = "CHALLENGE_RESPONSE" ->
           { Packet("READY_FOR_CONNECTION", p.address, p.clientGuid, p.serverGuid, 0) }
      [] p.type \in { "READY_FOR_CONNECTION", "CONNECTION" } ->
           { Packet("CONNECTION", p.address, 0, 0, 1) }
      [] OTHER -> { }

HandshakeInit ==
    /\ ClientConstructed({ Config(FALSE, FALSE, FALSE, FALSE) })
    /\ LockstepConstructed({ TRUE })

\* The application calls Connect( address ), once.
HandshakeConnect ==
    /\ CanCall
    /\ m_state = CLIENT_STATE_DISCONNECTED
    /\ m_error = "NONE"
    /\ m_timeBase.time <= MaxConnectTime
    /\ \E address \in ServerAddresses, guid \in GuidValues :
          /\ Becomes(Connect(Self, address, guid))
          /\ call' = [op |-> "Connect", address |-> address, hostname |-> "", guid |-> guid]
    /\ firstUpdate' = TRUE
    /\ UNCHANGED << advanced, inbox, lockstepVars, config, packet, received, pc >>

\* The application calls Update( timeBase ) after some time has passed.
HandshakeUpdate ==
    /\ CanCall
    /\ \E deltaTime \in 1 .. MaxDelta :
          /\ m_timeBase.time + deltaTime <= MaxHandshakeTime
          /\ Becomes([Self EXCEPT !.m_timeBase =
                         [time |-> m_timeBase.time + deltaTime, deltaTime |-> deltaTime]])
    /\ call' = [NoCall EXCEPT !.op = "Update"]
    /\ received' = 0
    /\ pc' = "UpdateResolver"
    /\ advanced' = FALSE
    /\ UNCHANGED << firstUpdate, inbox, lockstepVars, config, packet >>

\* UpdateConnection on a channel that reports no error.
HandshakeUpdateConnection ==
    /\ pc = "UpdateConnection" /\ ~crashed
    /\ Becomes(UpdateConnection(Self, FALSE))
    /\ pc' = "UpdateSendPackets"
    /\ UNCHANGED << advanced, firstUpdate, inbox, lockstepVars, config, call, packet, received >>

\* UpdateNetworkInterface: the transport carries the packet sent by
\* UpdateSendPackets to the server and the server's answer back.
HandshakeUpdateNetworkInterface ==
    /\ pc = "UpdateNetworkInterface" /\ ~crashed
    /\ IF sent = << >> \/ ServerAnswers(sent[1]) = { }
         THEN inbox' = inbox
         ELSE \E answer \in ServerAnswers(sent[1]) : inbox' = Append(inbox, answer)
    /\ Becomes(Self)
    /\ pc' = "ReceivePacket"
    /\ UNCHANGED << advanced, firstUpdate, lockstepVars, config, call, packet, received >>

\* UpdateReceivePackets: ReceivePacket returns the oldest packet queued.
HandshakeReceivePacket ==
    /\ pc = "ReceivePacket" /\ ~crashed
    /\ inbox # << >>
    /\ packet' = Head(inbox)
    /\ inbox' = Tail(inbox)
    /\ received' = received + 1
    /\ Becomes(Self)
    /\ pc' = "ProcessPacket"
    /\ UNCHANGED << advanced, firstUpdate, lockstepVars, config, call >>

\* UpdateReceivePackets: the queue is empty, ReceivePacket returns null.
HandshakeReceiveNull ==
    /\ pc = "ReceivePacket" /\ ~crashed
    /\ inbox = << >>
    /\ Becomes(Self)
    /\ pc' = "UpdateSendClientData"
    /\ UNCHANGED << advanced, firstUpdate, inbox, lockstepVars, config, call, packet, received >>

\* The steps of the application's ticks.
HandshakeTick ==
    \/ HandshakeUpdate
    \/ StepUpdateResolver
    \/ HandshakeUpdateConnection
    \/ StepUpdateSendPackets
    \/ HandshakeUpdateNetworkInterface
    \/ HandshakeReceivePacket
    \/ HandshakeReceiveNull
    \/ StepProcessPacket
    \/ StepUpdateSendClientData
    \/ StepUpdateTimeout

HandshakeNext == HandshakeConnect \/ HandshakeTick

\* The client is ticked repeatedly, and every Update runs to its end.
HandshakeSpec == HandshakeInit /\ [][HandshakeNext]_vars /\ WF_vars(HandshakeTick)

\* ------------------------------------------- the client data scenario
\* A client with a client data block of DataNumFragments fragments that
\* calls Connect( address ) at time 0 and is ticked once per connectingTimeOut,
\* a server that answers every packet of the handshake and, while the
\* client sends its data block, acknowledges one more fragment in every
\* tick, and a transport that loses and reorders nothing.

\* The acks the server may send next: one for each fragment not acked yet.
ServerAcks ==
    IF m_state = CLIENT_STATE_SENDING_CLIENT_DATA
      THEN { Packet("DATA_BLOCK_FRAGMENT_ACK", m_address, m_clientGuid, m_serverGuid,
                    fragmentId) :
               fragmentId \in (0 .. (config.numFragments - 1)) \ senderAcked }
      ELSE { }

DataInit ==
    /\ ClientConstructed({ [Config(FALSE, FALSE, TRUE, FALSE)
                               EXCEPT !.numFragments = DataNumFragments] })
    /\ LockstepConstructed({ TRUE })

\* The application calls Connect( address ) before the first Update.
DataConnect ==
    /\ m_timeBase.time = 0
    /\ HandshakeConnect

\* The application calls Update( timeBase ) once per connectingTimeOut.
DataUpdate ==
    /\ CanCall
    /\ m_timeBase.time + ConnectingTimeOut <= MaxHandshakeTime
    /\ Becomes([Self EXCEPT !.m_timeBase =
                   [time |-> m_timeBase.time + ConnectingTimeOut,
                    deltaTime |-> ConnectingTimeOut]])
    /\ call' = [NoCall EXCEPT !.op = "Update"]
    /\ received' = 0
    /\ pc' = "UpdateResolver"
    /\ advanced' = FALSE
    /\ UNCHANGED << firstUpdate, inbox, lockstepVars, config, packet >>

\* UpdateNetworkInterface: the transport brings the server's answer to the
\* packet sent by UpdateSendPackets, or the server's next ack.
DataUpdateNetworkInterface ==
    /\ pc = "UpdateNetworkInterface" /\ ~crashed
    /\ LET answers == (IF sent = << >> THEN { } ELSE ServerAnswers(sent[1]))
                         \cup ServerAcks
       IN  IF answers = { }
             THEN inbox' = inbox
             ELSE \E answer \in answers : inbox' = Append(inbox, answer)
    /\ Becomes(Self)
    /\ pc' = "ReceivePacket"
    /\ UNCHANGED << advanced, firstUpdate, lockstepVars, config, call, packet, received >>

DataTick ==
    \/ DataUpdate
    \/ StepUpdateResolver
    \/ HandshakeUpdateConnection
    \/ StepUpdateSendPackets
    \/ DataUpdateNetworkInterface
    \/ HandshakeReceivePacket
    \/ HandshakeReceiveNull
    \/ StepProcessPacket
    \/ StepUpdateSendClientData
    \/ StepUpdateTimeout

DataNext == DataConnect \/ DataTick

\* The client is ticked repeatedly, and every Update runs to its end.
DataSpec == DataInit /\ [][DataNext]_vars /\ WF_vars(DataTick)

\* ------------------------------------------- the playout delay buffer
\* The buffer alone, with a caller that hands it any batches at any times.

\* The sequences of n inputs.
RECURSIVE InputArrays(_)
InputArrays(n) ==
    IF n = 0 THEN { << >> }
    ELSE { Append(inputs, input) : inputs \in InputArrays(n - 1), input \in Inputs }

\* The batches: any sequence, and the sequences from before sequence 0.
BatchSequences == (0 .. MaxBatchSequence) \cup { U16(0 - 1) }

\* The times of a call: the time of the call before, or later.
CallTimes == { global_time + deltaTime : deltaTime \in { 0 } \cup FrameDeltas }

BufferInit ==
    /\ ClientConstructed({ Config(FALSE, FALSE, FALSE, FALSE) })
    /\ LockstepConstructed({ TRUE })

\* A call of AddInputs( time, sequence, num_inputs, inputs ).
BufferAddInputs ==
    /\ \E time \in CallTimes, sequence \in BatchSequences,
          num_inputs \in 1 .. MaxBatchInputs :
          \E inputs \in InputArrays(num_inputs) :
             /\ time <= MaxBufferTime
             /\ global_time' = time
             /\ playout_delay_buffer' =
                    AddInputs(playout_delay_buffer, time, sequence, inputs)
    /\ UNCHANGED << protocolVars, input_sliding_window, network_simulator,
                    received_input_this_frame, ack_sequence,
                    received_sequences, frame_inputs, lockstep_pc, failedAssert >>

\* A call of GetFrames( time, num_frames, frame_input ).
BufferGetFrames ==
    /\ \E time \in CallTimes :
          /\ time <= MaxBufferTime
          /\ global_time' = time
          /\ LET r == GetFrames(playout_delay_buffer, time)
             IN  /\ playout_delay_buffer' = r.buffer
                 /\ frame_inputs' = frame_inputs \o r.frame_input
    /\ UNCHANGED << protocolVars, input_sliding_window, network_simulator,
                    received_input_this_frame, ack_sequence,
                    received_sequences, lockstep_pc, failedAssert >>

BufferNext == BufferAddInputs \/ BufferGetFrames

BufferSpec == BufferInit /\ [][BufferNext]_vars

\* --------------------------------------------------- the lockstep demo
\* LockstepDemo::Update, frame after frame, over the simulator in TCP mode or
\* not.  The simulator hands a packet to ReceivePacket in the Update that
\* sent it or in a later one; when not in TCP mode it may lose a packet.

LockstepInit ==
    /\ ClientConstructed({ Config(FALSE, FALSE, FALSE, FALSE) })
    /\ LockstepConstructed(BOOLEAN)

\* LockstepDemo::Update up to the receive loop: the local input is inserted
\* and sent with every input not acked, and acked at once in TCP mode.
InsertAndSend(local_input, deltaTime) ==
    /\ lockstep_pc = "idle"
    /\ LET inputs == Insert(input_sliding_window, local_input)
           input_packet == InputPacket(RightPort, GetSequence(inputs), GetArray(inputs))
       IN  /\ global_time' = global_time + deltaTime
           /\ failedAssert' = (failedAssert \/ IsFull(input_sliding_window))
           /\ network_simulator' = SimulatorSendPacket(network_simulator, input_packet)
           /\ input_sliding_window' =
                  IF GetTCPMode(network_simulator)
                    THEN Ack(inputs, GetSequence(inputs))
                    ELSE inputs
    /\ received_input_this_frame' = FALSE
    /\ ack_sequence' = 0
    /\ received_sequences' = { }
    /\ lockstep_pc' = "ReceivePacket"
    /\ UNCHANGED << protocolVars, playout_delay_buffer, frame_inputs >>

\* One iteration of the receive loop: the packet is written to a buffer,
\* destroyed, read back and handled by type and port.
LockstepReceivePacket ==
    /\ lockstep_pc = "ReceivePacket"
    /\ \E i \in Receivable(network_simulator) :
          LET p == network_simulator.packets[i]
              port == p.port
              type == p.type
              read_packet == SerializeRead(type, SerializeWrite(p))
          IN  /\ network_simulator' = RemovePacket(network_simulator, i)
              /\ IF type = "LOCKSTEP_PACKET_INPUT" /\ port = RightPort
                   THEN /\ IF ~GetTCPMode(network_simulator)
                             THEN /\ received_input_this_frame' = TRUE
                                  /\ ack_sequence' =
                                         NextAckSequence(received_input_this_frame,
                                                         ack_sequence, read_packet.sequence)
                             ELSE UNCHANGED << received_input_this_frame, ack_sequence >>
                        /\ received_sequences' = received_sequences \cup { read_packet.sequence }
                        /\ failedAssert' = (failedAssert \/ read_packet.num_inputs <= 0)
                        /\ playout_delay_buffer' =
                               AddInputs(playout_delay_buffer, global_time,
                                         read_packet.sequence, read_packet.inputs)
                        /\ UNCHANGED input_sliding_window
                   ELSE IF /\ type = "LOCKSTEP_PACKET_ACK"
                           /\ port = LeftPort
                           /\ ~GetTCPMode(network_simulator)
                     THEN /\ input_sliding_window' = Ack(input_sliding_window, read_packet.ack)
                          /\ UNCHANGED << received_input_this_frame, ack_sequence,
                                          received_sequences, failedAssert,
                                          playout_delay_buffer >>
                     ELSE UNCHANGED << input_sliding_window, received_input_this_frame,
                                       ack_sequence, received_sequences, failedAssert,
                                       playout_delay_buffer >>
    /\ UNCHANGED << protocolVars, global_time, frame_inputs, lockstep_pc >>

\* The simulator, not in TCP mode, loses a packet.
LockstepLosePacket ==
    /\ lockstep_pc = "ReceivePacket"
    /\ ~GetTCPMode(network_simulator)
    /\ \E i \in 1 .. Len(network_simulator.packets) :
          network_simulator' = RemovePacket(network_simulator, i)
    /\ UNCHANGED << protocolVars, input_sliding_window, playout_delay_buffer,
                    global_time, received_input_this_frame, ack_sequence,
                    received_sequences, frame_inputs, lockstep_pc, failedAssert >>

\* ReceivePacket returns null: the ack packet is sent if an input packet was
\* received, GetFrames hands out the frames to simulate, and the locals go
\* out of scope.
LockstepEndUpdate ==
    /\ lockstep_pc = "ReceivePacket"
    /\ network_simulator' =
           IF received_input_this_frame
             THEN SimulatorSendPacket(network_simulator, AckPacket(LeftPort, ack_sequence))
             ELSE network_simulator
    /\ LET r == GetFrames(playout_delay_buffer, global_time)
       IN  /\ playout_delay_buffer' = r.buffer
           /\ frame_inputs' = frame_inputs \o r.frame_input
    /\ received_input_this_frame' = FALSE
    /\ ack_sequence' = 0
    /\ lockstep_pc' = "idle"
    /\ UNCHANGED << protocolVars, input_sliding_window, global_time,
                    received_sequences, failedAssert >>

\* A call of LockstepDemo::Update with any local input, after one frame or
\* after a hitch.
LockstepUpdate ==
    /\ input_sliding_window.sequence < MaxFrames
    /\ \E local_input \in Inputs, deltaTime \in FrameDeltas :
          InsertAndSend(local_input, deltaTime)

LockstepNext ==
    \/ LockstepUpdate
    \/ LockstepReceivePacket
    \/ LockstepLosePacket
    \/ LockstepEndUpdate

LockstepSpec == LockstepInit /\ [][LockstepNext]_vars

\* --------------------------------------------- the lockstep demo under loss
\* LockstepDemo::Update, frame after frame with the same local input, over a
\* simulator not in TCP mode that loses every packet in the Update that sent
\* it.

LossInit ==
    /\ ClientConstructed({ Config(FALSE, FALSE, FALSE, FALSE) })
    /\ LockstepConstructed({ FALSE })

\* A failed CORE_ASSERT ends the process.
LossUpdate ==
    /\ ~failedAssert
    /\ input_sliding_window.sequence < MaxLossFrames
    /\ InsertAndSend(0, FrameTime)

\* ReceivePacket returns null: the simulator holds no packet.
LossEndUpdate ==
    /\ network_simulator.packets = << >>
    /\ LockstepEndUpdate

LossNext ==
    \/ LossUpdate
    \/ LockstepLosePacket
    \/ LossEndUpdate

LossSpec == LossInit /\ [][LossNext]_vars

\* ----------------------------------------------------------- properties

\* The fields of the client object and of the objects it owns.
clientVars ==
    << m_state, m_error, m_extendedError, m_address, m_hostname, m_clientGuid,
       m_serverGuid, m_lastPacketReceiveTime, m_accumulator, m_timeBase,
       connectionActive, senderAcked, receiverStarted, resolverEntry >>

\* The Disconnected packet of the session the client is in.
SessionDisconnectedPacket ==
    Packet("DISCONNECTED", m_address, m_clientGuid, m_serverGuid, 0)

\* C1: in every reachable state, error # NONE implies state = DISCONNECTED.
C1_ErrorImpliesDisconnected ==
    m_error # "NONE" => m_state = CLIENT_STATE_DISCONNECTED

\* C2: a client in READY_FOR_CONNECTION that processes a Connection packet
\* becomes CONNECTED if and only if ReadPacket succeeds on it; when ReadPacket
\* fails, the state and lastPacketReceiveTime stay as they were.
C2_ConnectedIffReadPacket ==
    [][ ( /\ pc = "ProcessPacket"
          /\ m_state = CLIENT_STATE_READY_FOR_CONNECTION
          /\ packet.type = "CONNECTION" )
        => /\ (m_state' = CLIENT_STATE_CONNECTED) <=> (packet.arg = 1)
           /\ packet.arg # 1 => UNCHANGED << m_state, m_lastPacketReceiveTime >> ]_vars

\* The packet types that carry a client guid, and a server guid.
CarriesClientGuid(p) == p.type # "CONNECTION"
CarriesServerGuid(p) ==
    p.type \in { "READY_FOR_CONNECTION", "DATA_BLOCK_FRAGMENT",
                 "DATA_BLOCK_FRAGMENT_ACK", "DISCONNECTED" }

\* A packet that does not belong to the session: another source address,
\* another client guid or, once a challenge was accepted, another server guid.
Mismatched(p) ==
    \/ p.address # m_address
    \/ CarriesClientGuid(p) /\ p.clientGuid # m_clientGuid
    \/ /\ m_state >= CLIENT_STATE_SENDING_CHALLENGE_RESPONSE
       /\ CarriesServerGuid(p)
       /\ p.serverGuid # m_serverGuid

\* C3: in every state, processing a packet that does not belong to the
\* session changes neither the state, nor serverGuid, nor
\* lastPacketReceiveTime, nor the error.
C3_MismatchedPacketDropped ==
    [][ (pc = "ProcessPacket" /\ Mismatched(packet))
        => UNCHANGED << m_state, m_serverGuid, m_lastPacketReceiveTime,
                        m_error, m_extendedError >> ]_vars

\* C4: every step of an Update or Disconnect call taken while the state is
\* DISCONNECTED sends no packet and leaves lastPacketReceiveTime alone.
C4_DisconnectedSendsNothing ==
    [][ ( /\ m_state = CLIENT_STATE_DISCONNECTED
          /\ call'.op \in { "Update", "Disconnect" } )
        => /\ sent' = << >>
           /\ m_lastPacketReceiveTime' = m_lastPacketReceiveTime ]_vars

\* C4 witness: an Update of a disconnected client that received a packet has ended.
C4_Witness ==
    /\ pc = "idle"
    /\ call.op = "Update"
    /\ received = 1
    /\ m_state = CLIENT_STATE_DISCONNECTED
    /\ m_error = "NONE"

\* C5: at UpdateTimeout, a client that is not DISCONNECTED and whose
\* lastPacketReceiveTime + T < now (T = connectedTimeOut if CONNECTED, else
\* connectingTimeOut) becomes DISCONNECTED with CONNECTION_TIMED_OUT and the
\* state it held as extended error; otherwise UpdateTimeout changes nothing.
C5_Timeout ==
    [][ pc = "UpdateTimeout"
        => IF /\ m_state # CLIENT_STATE_DISCONNECTED
              /\ m_lastPacketReceiveTime
                   + (IF m_state = CLIENT_STATE_CONNECTED
                        THEN ConnectedTimeOut ELSE ConnectingTimeOut)
                   < m_timeBase.time
             THEN /\ m_state' = CLIENT_STATE_DISCONNECTED
                  /\ m_error' = "CONNECTION_TIMED_OUT"
                  /\ m_extendedError' = m_state
             ELSE UNCHANGED clientVars /\ sent' = << >> ]_vars

\* C5 witness: a client that never received a packet has timed out.
C5_Witness ==
    /\ pc = "idle"
    /\ call.op = "Update"
    /\ m_state = CLIENT_STATE_DISCONNECTED
    /\ m_error = "CONNECTION_TIMED_OUT"
    /\ m_extendedError = CLIENT_STATE_SENDING_CONNECTION_REQUEST

\* C6: Connect( address ) ends in SENDING_CONNECTION_REQUEST with no error,
\* the address of the call, the generated client guid and no server guid; it
\* sent exactly one Disconnected packet, with the guids and to the address of
\* the prior session, if there was one, and no packet otherwise.
C6_ConnectByAddress ==
    [][ (pc = "idle" /\ call'.op = "Connect")
        => /\ m_state' = CLIENT_STATE_SENDING_CONNECTION_REQUEST
           /\ m_error' = "NONE"
           /\ m_extendedError' = 0
           /\ m_address' = call'.address
           /\ m_clientGuid' = call'.guid
           /\ m_serverGuid' = 0
           /\ sent' = IF m_state # CLIENT_STATE_DISCONNECTED
                        THEN << SessionDisconnectedPacket >>
                        ELSE << >> ]_vars

\* C6 witness: Connect( address ) was called during a session that had
\* accepted a challenge, and started a session with another client guid.
C6_Witness ==
    /\ pc = "idle"
    /\ call.op = "Connect"
    /\ Len(sent) = 1
    /\ sent[1].serverGuid # 0
    /\ sent[1].clientGuid # m_clientGuid
    /\ m_state = CLIENT_STATE_SENDING_CONNECTION_REQUEST

\* C7: Connect( hostname ) with a string that is no address, on a client with
\* no resolver, fails with INVALID_CONNECT_ADDRESS and leaves the client
\* DISCONNECTED; the resolver is not called.
C7_NoResolverFails ==
    [][ ( /\ pc = "idle"
          /\ call'.op = "ConnectHostname"
          /\ ~IsValid(ParseAddress(call'.hostname))
          /\ ~config.resolver )
        => /\ m_error' = "INVALID_CONNECT_ADDRESS"
           /\ m_state' = CLIENT_STATE_DISCONNECTED
           /\ ~crashed' ]_vars

\* C8: Disconnect() on a DISCONNECTED client changes nothing and sends
\* nothing; otherwise it sends exactly one Disconnected packet with the
\* session's guids to the session's address, resets the channel, clears the
\* data block sender and receiver, zeroes address and guids and leaves the
\* client DISCONNECTED (so that a second Disconnect() changes nothing).
C8_Disconnect ==
    [][ (pc = "idle" /\ call'.op = "Disconnect")
        => IF m_state = CLIENT_STATE_DISCONNECTED
             THEN UNCHANGED clientVars /\ sent' = << >>
             ELSE /\ sent' = << SessionDisconnectedPacket >>
                  /\ connectionActive' = FALSE
                  /\ senderAcked' = {}
                  /\ receiverStarted' = FALSE
                  /\ m_address' = NoAddress
                  /\ m_clientGuid' = 0
                  /\ m_serverGuid' = 0
                  /\ m_state' = CLIENT_STATE_DISCONNECTED ]_vars

\* C8 witness: Disconnect() ended a session that had accepted a challenge.
C8_Witness ==
    /\ pc = "idle"
    /\ call.op = "Disconnect"
    /\ Len(sent) = 1
    /\ sent[1].type = "DISCONNECTED"
    /\ sent[1].serverGuid # 0
    /\ m_state = CLIENT_STATE_DISCONNECTED

\* C9: once an error is set, no step of an Update, no Disconnect and no
\* inbound packet changes error or extendedError; only Connect does.
C9_ErrorLatched ==
    [][ ( /\ m_error # "NONE"
          /\ call'.op \notin { "Connect", "ConnectHostname" } )
        => UNCHANGED << m_error, m_extendedError >> ]_vars

\* C10: in every state but DISCONNECTED, a Disconnected packet disconnects
\* the client with DISCONNECTED_FROM_SERVER if and only if its address, its
\* client guid and its server guid are the session's; otherwise state and
\* error stay as they were.
C10_DisconnectedPacket ==
    [][ ( /\ pc = "ProcessPacket"
          /\ packet.type = "DISCONNECTED"
          /\ m_state # CLIENT_STATE_DISCONNECTED )
        => IF /\ packet.address = m_address
              /\ packet.clientGuid = m_clientGuid
              /\ packet.serverGuid = m_serverGuid
             THEN /\ m_state' = CLIENT_STATE_DISCONNECTED
                  /\ m_error' = "DISCONNECTED_FROM_SERVER"
             ELSE UNCHANGED << m_state, m_error, m_extendedError >> ]_vars

\* C10 witness: a Disconnected packet of the session ended a session that
\* had accepted a challenge.
C10_Witness ==
    /\ pc = "ReceivePacket"
    /\ m_error = "DISCONNECTED_FROM_SERVER"
    /\ m_state = CLIENT_STATE_DISCONNECTED
    /\ Len(sent) = 1
    /\ sent[1].serverGuid # 0

\* C11: a client in SENDING_CONNECTION_REQUEST that processes a
\* ConnectionDenied packet with the session's address and client guid becomes
\* DISCONNECTED with CONNECTION_REQUEST_DENIED and the packet's reason as
\* extended error; in every other state a ConnectionDenied packet changes
\* nothing and nothing is sent.
C11_ConnectionDenied ==
    [][ (pc = "ProcessPacket" /\ packet.type = "CONNECTION_DENIED")
        => /\ ( /\ m_state = CLIENT_STATE_SENDING_CONNECTION_REQUEST
                /\ packet.address = m_address
                /\ packet.clientGuid = m_clientGuid )
              => /\ m_state' = CLIENT_STATE_DISCONNECTED
                 /\ m_error' = "CONNECTION_REQUEST_DENIED"
                 /\ m_extendedError' = packet.arg
           /\ m_state # CLIENT_STATE_SENDING_CONNECTION_REQUEST
              => UNCHANGED clientVars /\ sent' = << >> ]_vars

\* C11 witness: a request was denied with reason 7.
C11_Witness ==
    /\ pc = "ReceivePacket"
    /\ received = 1
    /\ m_state = CLIENT_STATE_DISCONNECTED
    /\ m_error = "CONNECTION_REQUEST_DENIED"
    /\ m_extendedError = 7

\* The moves of the state the happy handshake makes.
HandshakeEdges ==
    { << CLIENT_STATE_DISCONNECTED, CLIENT_STATE_SENDING_CONNECTION_REQUEST >>,
      << CLIENT_STATE_SENDING_CONNECTION_REQUEST, CLIENT_STATE_SENDING_CHALLENGE_RESPONSE >>,
      << CLIENT_STATE_SENDING_CHALLENGE_RESPONSE, CLIENT_STATE_READY_FOR_CONNECTION >>,
      << CLIENT_STATE_READY_FOR_CONNECTION, CLIENT_STATE_CONNECTED >> }

\* C12: in the handshake scenario, a client that calls Connect( address )
\* and is ticked repeatedly moves from SENDING_CONNECTION_REQUEST to
\* SENDING_CHALLENGE_RESPONSE to READY_FOR_CONNECTION to CONNECTED and by no
\* other move, never has an error (it does not time out), and eventually is
\* CONNECTED with error NONE.
C12_HappyHandshake ==
    /\ [][ m_state' # m_state => << m_state, m_state' >> \in HandshakeEdges ]_vars
    /\ [](m_error = "NONE")
    /\ [](m_state = CLIENT_STATE_SENDING_CONNECTION_REQUEST
            => <>(m_state = CLIENT_STATE_CONNECTED /\ m_error = "NONE"))

\* C13: whatever batches AddInputs is called with, the inputs GetFrames has
\* handed out have the sequences 0, 1, 2, ... in this order, the inputs still
\* queued continue them without gap or duplicate, and mostRecentInput is the
\* sequence after the last input appended.
C13_ConsecutiveSequences ==
    /\ \A i \in 1 .. Len(frame_inputs) : frame_inputs[i].sequence = U16(i - 1)
    /\ \A i \in 1 .. Len(playout_delay_buffer.input_queue) :
          playout_delay_buffer.input_queue[i].sequence
            = U16(Len(frame_inputs) + i - 1)
    /\ playout_delay_buffer.most_recent_input
         = U16(Len(frame_inputs) + Len(playout_delay_buffer.input_queue))

\* C13 witness: three inputs were handed out and batches offered since then
\* left nothing queued.
C13_Witness ==
    /\ lockstep_pc = "idle"
    /\ Len(frame_inputs) = 3
    /\ frame_inputs[2].input # frame_inputs[3].input
    /\ playout_delay_buffer.input_queue = << >>
    /\ global_time = MaxBufferTime

\* The inputs the sender has inserted into its sliding window, in order
\* (the ring has not wrapped: fewer than MaxInputs frames have run).
InsertedInputs == input_sliding_window.entries

\* The inputs the playout delay buffer has handed out and those it holds.
ReplayedInputs ==
    [k \in 1 .. (Len(frame_inputs) + Len(playout_delay_buffer.input_queue)) |->
        IF k <= Len(frame_inputs)
          THEN frame_inputs[k].input
          ELSE playout_delay_buffer.input_queue[k - Len(frame_inputs)].input]

\* The receiver's inputs are the first inputs of the sender, in order.
ReplayIsPrefix ==
    /\ Len(ReplayedInputs) <= Len(InsertedInputs)
    /\ \A k \in 1 .. Len(ReplayedInputs) : ReplayedInputs[k] = InsertedInputs[k]

\* The input packets the simulator holds.
InputPacketsInFlight ==
    { p \in { network_simulator.packets[i] :
                i \in 1 .. Len(network_simulator.packets) } :
        p.type = "LOCKSTEP_PACKET_INPUT" }

\* C14: not in TCP mode, whatever the simulator loses, delays and reorders,
\* the k-th input the playout delay buffer hands out (or holds) is the k-th
\* input the sender inserted, for every k.
C14_ReceiverReplaysSender ==
    ~GetTCPMode(network_simulator) => ReplayIsPrefix

\* C14 witness: two inputs were handed out while the packet of the second
\* frame is still in flight: its input reached the receiver in a later packet.
C14_Witness ==
    /\ ~GetTCPMode(network_simulator)
    /\ lockstep_pc = "idle"
    /\ Len(frame_inputs) = 2
    /\ frame_inputs[1].input # frame_inputs[2].input
    /\ \E p \in InputPacketsInFlight : p.sequence = 2

\* C15: in TCP mode the k-th input the playout delay buffer hands out is the
\* k-th input the sender inserted, and every input packet carries the input
\* of the frame it was sent on as its last input (self-acking loses no input).
C15_TcpReplaysSender ==
    GetTCPMode(network_simulator)
      => /\ ReplayIsPrefix
         /\ \A p \in InputPacketsInFlight :
               /\ p.num_inputs >= 1
               /\ p.inputs[p.num_inputs] = InsertedInputs[p.sequence]

\* C16: in TCP mode, once the sender's part of a frame has run, the sliding
\* window holds no entry that is not acked, every input packet carries
\* exactly one input, the one inserted on its frame, and the window was never
\* found full.
C16_TcpWindowDrained ==
    GetTCPMode(network_simulator)
      => /\ GetNumEntries(input_sliding_window) = 0
         /\ \A p \in InputPacketsInFlight :
               p.inputs = << InsertedInputs[p.sequence] >>
         /\ ~failedAssert

\* C17: in every reachable state of the lockstep demo, in TCP mode or not,
\* first_sequence <= sequence <= first_sequence + MaxInputs by 16-bit
\* signed-wrap comparison.
C17_WindowBounds ==
    /\ ~sequence_less_than(input_sliding_window.sequence,
                           input_sliding_window.first_sequence)
    /\ U16(input_sliding_window.sequence - input_sliding_window.first_sequence)
         <= MaxInputs

\* C18: the step that processes a received packet destroys it exactly once,
\* whatever its type and the state of the client (also a client that was
\* disconnected earlier in the same Update), and goes on to the next
\* ReceivePacket; no other step destroys a packet; the receive loop ends only
\* when ReceivePacket returns null, with no packet held.
C18_PacketsDestroyedOnce ==
    [][ /\ pc = "ProcessPacket"
           => /\ destroyed' = 1
              /\ packet' = NoPacket
              /\ pc' = "ReceivePacket"
        /\ pc # "ProcessPacket" => destroyed' = 0
        /\ (pc = "ReceivePacket" /\ pc' # "ProcessPacket")
           => /\ packet = NoPacket
              /\ packet' = NoPacket
              /\ pc' = "UpdateSendClientData" ]_vars

\* C18 witness: a packet was received and destroyed after the client was
\* disconnected by a channel error earlier in the same Update.
C18_Witness ==
    /\ pc = "ReceivePacket"
    /\ received = 1
    /\ destroyed = 1
    /\ packet = NoPacket
    /\ m_state = CLIENT_STATE_DISCONNECTED
    /\ m_error = "CONNECTION_ERROR"

\* The sub-steps of Update in their order; the receive loop goes back to
\* ReceivePacket after every packet.
UpdateOrder ==
    { << "idle", "UpdateResolver" >>,
      << "UpdateResolver", "UpdateConnection" >>,
      << "UpdateConnection", "UpdateSendPackets" >>,
      << "UpdateSendPackets", "UpdateNetworkInterface" >>,
      << "UpdateNetworkInterface", "ReceivePacket" >>,
      << "ReceivePacket", "ProcessPacket" >>,
      << "ProcessPacket", "ReceivePacket" >>,
      << "ReceivePacket", "UpdateSendClientData" >>,
      << "UpdateSendClientData", "UpdateTimeout" >>,
      << "UpdateTimeout", "idle" >> }

\* The type of the packet the send step emits in a state.
PacketTypeOfState(state) ==
    CASE state = CLIENT_STATE_SENDING_CONNECTION_REQUEST -> "CONNECTION_REQUEST"
      [] state = CLIENT_STATE_SENDING_CHALLENGE_RESPONSE -> "CHALLENGE_RESPONSE"
      [] state = CLIENT_STATE_READY_FOR_CONNECTION -> "READY_FOR_CONNECTION"
      [] state = CLIENT_STATE_CONNECTED -> "CONNECTION"
      [] OTHER -> "NONE"

\* C19: the sub-steps of an Update run in the order resolver, channel, send,
\* transport, inbound drain, block sender, timeout; the packet the send step
\* emits has the type of the state held when the inbound packets of the tick
\* are yet to be processed; and an Update in which a packet moved the state
\* forward does not time out.
C19_UpdateOrder ==
    [][ /\ pc' # pc => << pc, pc' >> \in UpdateOrder
        /\ pc = "UpdateSendPackets"
           => /\ m_state' = m_state
              /\ \A i \in 1 .. Len(sent') : sent'[i].type = PacketTypeOfState(m_state)
        /\ pc = "UpdateNetworkInterface" => m_state' = m_state
        /\ (pc = "UpdateTimeout" /\ advanced)
           => /\ m_error' # "CONNECTION_TIMED_OUT"
              /\ m_state' = m_state ]_vars

\* The pairs of state and packet type the receive loop has no case for.
Dropped(state, type) ==
    \/ /\ type \in { "CONNECTION_CHALLENGE", "CONNECTION_DENIED" }
       /\ state # CLIENT_STATE_SENDING_CONNECTION_REQUEST
    \/ /\ type = "READY_FOR_CONNECTION"
       /\ state # CLIENT_STATE_SENDING_CHALLENGE_RESPONSE
    \/ /\ type = "DATA_BLOCK_FRAGMENT_ACK"
       /\ state # CLIENT_STATE_SENDING_CLIENT_DATA
    \/ /\ type = "CONNECTION"
       /\ state \notin { CLIENT_STATE_READY_FOR_CONNECTION, CLIENT_STATE_CONNECTED }
    \/ /\ type = "DATA_BLOCK_FRAGMENT"
       /\ state = CLIENT_STATE_SENDING_CONNECTION_REQUEST
    \/ /\ type # "DISCONNECTED"
       /\ state \in { CLIENT_STATE_DISCONNECTED, CLIENT_STATE_RESOLVING_HOSTNAME }

\* C20: processing a packet whose type the state has no case for changes
\* neither the state, nor the guids, nor lastPacketReceiveTime, nor the error.
C20_DroppedPairs ==
    [][ (pc = "ProcessPacket" /\ Dropped(m_state, packet.type))
        => UNCHANGED << m_state, m_clientGuid, m_serverGuid,
                        m_lastPacketReceiveTime, m_error, m_extendedError >> ]_vars

\* C20 witness: a session that had accepted a challenge is in
\* SENDING_CHALLENGE_RESPONSE after a packet was processed in that state at a
\* later time than the challenge: the packet was dropped.
C20_Witness ==
    /\ pc = "ReceivePacket"
    /\ received = 1
    /\ destroyed = 1
    /\ m_state = CLIENT_STATE_SENDING_CHALLENGE_RESPONSE
    /\ m_serverGuid # 0
    /\ m_lastPacketReceiveTime < m_timeBase.time

\* The time from which GetFrames hands out frame f of buffer b.
FrameDueTime(b, f) == b.start_time + f * FrameTime + HalfFrameTime + PlayoutDelay

\* C21: a call of GetFrames at time t emits at most MaxSimFrames frames and
\* at most as many as inputs are queued; it emits frame f only if the buffer
\* has started and t >= start_time + (f + 0.5)/60 + PlayoutDelay; the frames
\* emitted are the front of the queue, one input popped and frame incremented
\* per emission; a stopped buffer emits nothing; start_time is the time of
\* the first AddInputs call and does not change afterwards.
C21_GetFrames ==
    [][ LET b == playout_delay_buffer
            num_frames == Len(frame_inputs') - Len(frame_inputs)
        IN  /\ num_frames \in 0 .. MaxSimFrames
            /\ num_frames <= Len(b.input_queue)
            /\ frame_inputs' = frame_inputs \o SubSeq(b.input_queue, 1, num_frames)
            /\ playout_delay_buffer'.frame = b.frame + num_frames
            /\ num_frames > 0
               => /\ ~b.stopped
                  /\ playout_delay_buffer'.input_queue =
                        SubSeq(b.input_queue, num_frames + 1, Len(b.input_queue))
                  /\ \A f \in b.frame .. (b.frame + num_frames - 1) :
                        global_time' >= FrameDueTime(b, f)
            /\ b.stopped
               => /\ num_frames = 0
                  /\ ~playout_delay_buffer'.stopped
                     => playout_delay_buffer'.start_time = global_time'
            /\ ~b.stopped
               => /\ ~playout_delay_buffer'.stopped
                  /\ playout_delay_buffer'.start_time = b.start_time ]_vars

\* C21 witness: MaxSimFrames frames were emitted and a third input, whose
\* frame is due as well, is still queued.
C21_Witness ==
    /\ ~playout_delay_buffer.stopped
    /\ playout_delay_buffer.frame = MaxSimFrames
    /\ Len(frame_inputs) = MaxSimFrames
    /\ Len(playout_delay_buffer.input_queue) > 0
    /\ global_time >= FrameDueTime(playout_delay_buffer, MaxSimFrames)

\* The ack packets among the packets the simulator holds.
AckPacketsInFlight(sim) ==
    { i \in 1 .. Len(sim.packets) : sim.packets[i].type = "LOCKSTEP_PACKET_ACK" }

\* The greatest of a set of sequences, by 16-bit wrap comparison.
MaxSequence(sequences) ==
    CHOOSE s \in sequences : \A t \in sequences : ~sequence_greater_than(t, s)

\* C22: the tick's end sends exactly one ack packet, to the left side, when
\* an input packet was received in the tick and the simulator is not in TCP
\* mode, and no packet otherwise; its ack is the greatest sequence, by wrap
\* comparison, of the input packets received in the tick, minus one, whatever
\* their order of arrival; no other step sends an ack packet.
C22_OneAckPerTick ==
    [][ IF lockstep_pc = "ReceivePacket" /\ lockstep_pc' = "idle"
          THEN IF received_sequences # { } /\ ~GetTCPMode(network_simulator)
                 THEN network_simulator'.packets =
                        Append(network_simulator.packets,
                               AckPacket(LeftPort, U16(MaxSequence(received_sequences) - 1)))
                 ELSE network_simulator'.packets = network_simulator.packets
          ELSE Cardinality(AckPacketsInFlight(network_simulator'))
                 <= Cardinality(AckPacketsInFlight(network_simulator)) ]_vars

\* C22 witness: a tick in which two input packets were received has sent its
\* ack packet.
C22_Witness ==
    /\ lockstep_pc = "idle"
    /\ ~GetTCPMode(network_simulator)
    /\ Cardinality(received_sequences) = 2
    /\ network_simulator.packets # << >>
    /\ network_simulator.packets[Len(network_simulator.packets)] =
          AckPacket(LeftPort, U16(MaxSequence(received_sequences) - 1))

C26_AckBelowMostRecentInput ==
    ~GetTCPMode(network_simulator)
    => /\ \A i \in AckPacketsInFlight(network_simulator) :
             sequence_less_than(network_simulator.packets[i].ack,
                                playout_delay_buffer.most_recent_input)
       /\ received_input_this_frame
          => sequence_less_than(ack_sequence, playout_delay_buffer.most_recent_input)
       /\ ~sequence_greater_than(input_sliding_window.first_sequence,
                                 playout_delay_buffer.most_recent_input)

\* C26 witness: the sender has freed inputs on an ack it received, and a later
\* ack is in flight.
C26_Witness ==
    /\ ~GetTCPMode(network_simulator)
    /\ input_sliding_window.first_sequence > 0
    /\ \E i \in AckPacketsInFlight(network_simulator) :
          network_simulator.packets[i].ack >= input_sliding_window.first_sequence

\* C27: every input packet the simulator holds for the receiver, in TCP mode
\* or not, carries at least one input, and the assertion num_inputs > 0 of
\* AddInputs has not failed.
C27_InputPacketsCarryInputs ==
    /\ \A p \in InputPacketsInFlight : p.num_inputs > 0
    /\ ~failedAssert

\* C28: in the client data scenario, where an ack of one more fragment
\* arrives in every tick, a client in SENDING_CLIENT_DATA moves to
\* READY_FOR_CONNECTION in the Update in which the sender reports
\* SendCompleted, is not disconnected with CONNECTION_TIMED_OUT while it
\* sends its data block, and eventually is in READY_FOR_CONNECTION.
C28_ClientDataCompletes ==
    /\ [][ ( /\ pc = "UpdateSendClientData"
             /\ m_state = CLIENT_STATE_SENDING_CLIENT_DATA
             /\ SendCompleted(Self) )
           => m_state' = CLIENT_STATE_READY_FOR_CONNECTION ]_vars
    /\ [](~( /\ m_error = "CONNECTION_TIMED_OUT"
             /\ m_extendedError = CLIENT_STATE_SENDING_CLIENT_DATA ))
    /\ [](m_state = CLIENT_STATE_SENDING_CLIENT_DATA
            => <>(m_state = CLIENT_STATE_READY_FOR_CONNECTION))

\* C25: the first Update after Connect( address ), called at time t, in which
\* no packet was received and whose time is at most t + connectingTimeOut
\* (t is the time of the Update before), does not disconnect the client with
\* CONNECTION_TIMED_OUT, whatever happened before the Connect.
C25_NoTimeoutAfterConnect ==
    [][ ( /\ pc = "UpdateTimeout"
          /\ firstUpdate
          /\ received = 0
          /\ m_timeBase.deltaTime <= ConnectingTimeOut )
        => m_error' # "CONNECTION_TIMED_OUT" ]_vars

\* The forward moves of a session of a client with the given configuration.
SessionEdges(cfg) ==
    { << CLIENT_STATE_SENDING_CONNECTION_REQUEST, CLIENT_STATE_SENDING_CHALLENGE_RESPONSE >>,
      << CLIENT_STATE_SENDING_CLIENT_DATA, CLIENT_STATE_READY_FOR_CONNECTION >>,
      << CLIENT_STATE_READY_FOR_CONNECTION, CLIENT_STATE_CONNECTED >> }
    \cup ( IF cfg.clientData
             THEN { << CLIENT_STATE_SENDING_CHALLENGE_RESPONSE,
                       CLIENT_STATE_SENDING_CLIENT_DATA >> }
             ELSE { << CLIENT_STATE_SENDING_CHALLENGE_RESPONSE,
                       CLIENT_STATE_READY_FOR_CONNECTION >> } )

\* C24: every change of the client state is a forward move of the session
\* (SENDING_CONNECTION_REQUEST to SENDING_CHALLENGE_RESPONSE, from there to
\* READY_FOR_CONNECTION without client data and to SENDING_CLIENT_DATA with
\* it, SENDING_CLIENT_DATA to READY_FOR_CONNECTION, READY_FOR_CONNECTION to
\* CONNECTED), or the return to DISCONNECTED, or the start of a session: a
\* Connect call, or the resolver's result in RESOLVING_HOSTNAME.
C24_ForwardEdges ==
    [][ m_state' # m_state
        => \/ << m_state, m_state' >> \in SessionEdges(config)
           \/ m_state' = CLIENT_STATE_DISCONNECTED
           \/ /\ pc = "idle"
              /\ call'.op \in { "Connect", "ConnectHostname" }
              /\ m_state' \in { CLIENT_STATE_RESOLVING_HOSTNAME,
                                CLIENT_STATE_SENDING_CONNECTION_REQUEST }
           \/ /\ m_state = CLIENT_STATE_RESOLVING_HOSTNAME
              /\ m_state' = CLIENT_STATE_SENDING_CONNECTION_REQUEST ]_vars

\* C24 witness: a client with a client data block is CONNECTED at the end of
\* an Update: its session went through SENDING_CLIENT_DATA.
C24_Witness ==
    /\ pc = "idle"
    /\ config.clientData
    /\ m_state = CLIENT_STATE_CONNECTED
    /\ call.op = "Update"

====
